---- MODULE Spec2Model ----
(***************************************************************************)
(* Dataset / training-job registry of the EchoCart workspace API.          *)
(*                                                                         *)
(* The state is the two database tables the training pipeline writes       *)
(* (datasets, training_jobs), the requests the handlers fire and forget    *)
(* (background validation, start requests to the Python trainer), the      *)
(* polling interval of the workspace page and the answer of the last train *)
(* request.  Every action is one HTTP handler (or one browser callback)    *)
(* translated from its source; request inputs are drawn from small sets.   *)
(*                                                                         *)
(* Four next-state relations share the state: Next (the job routes and     *)
(* the page), RegistryNext (the dataset routes and the fired requests),    *)
(* ChatNext (the chat route and its fallback engine, which keep no state   *)
(* of their own) and NormalizerNext (the files of the three formats and    *)
(* their validation).                                                      *)
(***************************************************************************)
EXTENDS Integers, Sequences, FiniteSets, TLC

\* ---------------------------------------------------------------- bounds
MaxDatasets == 1
MaxJobs == 2
MaxWorkspaces == 2
MaxProgress == 1
MaxSamples == 1
MaxExamples == 2     \* examples of an uploaded file
MaxEntities == 1     \* entities of an example
MaxCeiling == 999    \* largest price ceiling an utterance names

\* ------------------------------------------------------- value domains
Workspaces == 1..MaxWorkspaces
DatasetIds == 1..MaxDatasets
JobIds == 1..MaxJobs

\* JSON null in a nullable column, and a key a request body does not carry
Null == "null"
Undefined == "undefined"

\* log written by the train route when it inserts the job
CreatedLog == "Training job created, waiting to start...\n"

ActiveStatuses == {"queued", "training"}
TerminalStatuses == {"completed", "failed"}

\* progress is a float in [0,1]; k stands for k / MaxProgress.  A progress
\* field is a set: empty when the key is absent (body) or the column NULL.
ProgressValues == 0..MaxProgress

\* values of the optional keys of a PATCH /api/training-jobs/[id] body
BodyLog == {Undefined, "Training failed: timeout"}
BodyModelPath == {Undefined, "model-x"}
BodyFinishedAt == {Undefined, "t1"}

Body(s, p, l, m, f) ==
  [status |-> s, progress |-> p, log |-> l, modelPath |-> m, finishedAt |-> f]

\* the status updates a caller sends: progress reports (with or without a
\* status), a log line alone, completed and failed reports with and without
\* their optional keys, and a body whose status is JSON null
Bodies ==
  {Body(s, {p}, Undefined, Undefined, Undefined) :
      s \in {Undefined, "queued", "training"}, p \in ProgressValues}
  \cup {Body(Undefined, {}, "Training failed: timeout", Undefined, Undefined)}
  \cup {Body("completed", p, Undefined, m, f) :
      p \in {{}, {MaxProgress}}, m \in BodyModelPath, f \in BodyFinishedAt}
  \cup {Body("failed", {}, l, Undefined, f) : l \in BodyLog, f \in BodyFinishedAt}
  \cup {Body(Null, {}, Undefined, Undefined, Undefined)}

\* dataset statuses the dataset PATCH / PUT routes accept
VALID_STATUSES == {"uploaded", "validated", "error", "training", "trained"}

\* validation_report column: NULL, a report object without errors, a report
\* that lists errors
EmptyReport == "{}"
ErrorsReport == "{errors: [...]}"

\* sampleCount is a set like progress: empty when never written
SampleCounts == 0..MaxSamples

\* answers of the Python backend to POST /datasets/validate; Down is a fetch
\* that throws or a non-OK answer
Down == [ok |-> FALSE, valid |-> FALSE, sample_count |-> 0]
PythonAnswers ==
  {Down}
  \cup {[ok |-> TRUE, valid |-> TRUE, sample_count |-> n] : n \in SampleCounts}
  \cup {[ok |-> TRUE, valid |-> FALSE, sample_count |-> 0]}

DatasetBody(s, n, r, e) ==
  [status |-> s, sampleCount |-> n, validationReport |-> r, errors |-> e]

\* bodies of PUT /api/datasets/[id]: a status alone (accepted, refused, JSON
\* null), a validationReport alone
PutBodies ==
  {DatasetBody(s, {}, Undefined, Undefined) : s \in VALID_STATUSES \cup {"parsing", Null}}
  \cup {DatasetBody(Undefined, {}, r, Undefined) : r \in {Null, ErrorsReport}}

\* bodies of PATCH /api/datasets/[id]: those of PUT, a validation verdict with
\* its sample count, an error verdict with its errors
DatasetBodies ==
  PutBodies
  \cup {DatasetBody("validated", {n}, Undefined, Undefined) : n \in SampleCounts}
  \cup {DatasetBody("error", {}, Undefined, ErrorsReport)}

\* JSON values of the message and sender keys of a chat body: the key absent,
\* a string, a number
Absent == [type |-> "undefined", value |-> ""]
Str(t) == [type |-> "string", value |-> t]
Num(n) == [type |-> "number", value |-> n]

\* JavaScript truthiness, as !message and !sender test it
Truthy(v) ==
  \/ v.type = "string" /\ v.value # ""
  \/ v.type = "number" /\ v.value # "0"

Messages ==
  {Absent, Str(""), Num("0"), Num("42"),
   Str("hello"), Str("help"), Str("Track my order"),
   Str("I'm tired, show me cozy clothes"),
   Str("Eco-friendly products under $100"),
   Str("Feeling excited, need outfit ideas"),
   Str("track my order"), Str("hello, track my order"), Str("shipping"),
   Str("exhausted and stressed"), Str("so sleepy"), Str("Stressed out"),
   Str("help me relax"), Str("outdoors gear"),
   Str("running shoes"), Str("new headphones"), Str("cheap eco shoes"),
   Str("cheap stuff"), Str("under 0"), Str("budget 7"),
   Str("below $50 or 30"), Str("under 150"),
   Str("what's new")}
Senders == {Absent, Str(""), Str("user-1")}

\* what the call to Rasa does: an OK answer with a list of messages, a fetch
\* that rejects, the 3 s AbortSignal firing, a non-OK status, an OK answer
\* whose body is not JSON, an OK answer whose JSON is not a list
RasaOutcomes == {"ok", "network error", "timeout", "non-OK", "not JSON", "not a list"}

NoRequest == [message |-> Absent, sender |-> Absent, rasa |-> "none"]
\* the entities of a classification: each key is absent ({}) or holds a value
NoEntities == [mood |-> {}, category |-> {}, max_price |-> {}]

\* a reply of the chat route: HTTP status, the engine that produced the body,
\* what the fallback engine classified (intent, entities) and the ids of the
\* products of its one message
Reply(status, engine, intent, entities, prods) ==
  [status |-> status, engine |-> engine, intent |-> intent,
   entities |-> entities, products |-> prods]
NoReply == Reply(0, "none", "none", NoEntities, <<>>)

\* no file uploaded yet
NoCorpus == [examples |-> <<>>, rows |-> <<>>]

VARIABLES
  datasets,         \* datasets table: sequence indexed by the autoincrement id
  jobs,             \* training_jobs table: sequence indexed by the autoincrement id
  pendingValidate,  \* ids of the datasets whose upload-triggered validation is in flight
  dispatched,       \* training_job_id of every POST /train sent to the trainer
  settled,          \* <<training_job_id, outcome>> of every POST /train that has settled
  pollingInterval,  \* workspace page: id of the job its interval polls, 0 if none
  trainResponse,    \* HTTP status of the last POST .../train, 0 before the first
  chatRequest,      \* the last POST /api/chat: its body and what Rasa did with it
  chatReply,        \* the answer to it: see Reply
  corpus            \* files that encode the same examples, and their dataset rows

vars ==
  <<datasets, jobs, pendingValidate, dispatched, settled, pollingInterval,
    trainResponse, chatRequest, chatReply, corpus>>

Init ==
  /\ datasets = <<>>
  /\ jobs = <<>>
  /\ pendingValidate = {}
  /\ dispatched = {}
  /\ settled = {}
  /\ pollingInterval = 0
  /\ trainResponse = 0
  /\ chatRequest = NoRequest
  /\ chatReply = NoReply
  /\ corpus = NoCorpus

\* ------------------------------------------------------------- datasets
\* POST /api/datasets/upload: insert a dataset in status 'uploaded', then fire
\* POST /api/datasets/[id]/validate without waiting for it
Upload(w) ==
  /\ Len(datasets) < MaxDatasets
  /\ datasets' = Append(datasets, [workspaceId |-> w, status |-> "uploaded",
                                    sampleCount |-> {}, validationReport |-> Null])
  /\ pendingValidate' = pendingValidate \cup {Len(datasets) + 1}
  /\ UNCHANGED <<jobs, dispatched, settled, pollingInterval, trainResponse,
                  chatRequest, chatReply, corpus>>

\* the UPDATE of the validate route that asks the Python backend: status from
\* the verdict, sampleCount = sample_count || 0, validationReport not written
StoreVerdict(row, answer) ==
  [row EXCEPT !.status = IF answer.valid THEN "validated" ELSE "error",
              !.sampleCount = {answer.sample_count}]

\* POST /api/datasets/[id]/validate: ask the Python backend, store the verdict;
\* 404 for an unknown id, 500 with nothing written when the backend is down
ValidatePOST(d, answer) ==
  IF d > Len(datasets) \/ ~answer.ok
  THEN UNCHANGED vars
  ELSE /\ datasets' = [datasets EXCEPT ![d] = StoreVerdict(@, answer)]
       /\ UNCHANGED <<jobs, pendingValidate, dispatched, settled,
                       pollingInterval, trainResponse, chatRequest, chatReply, corpus>>

\* the validation request fired by the upload is served.  It carries no body:
\* the validate route that reads a validationReport from the body throws on
\* request.json() and answers 500, like the other one when the backend is down
UploadValidate(d, answer) ==
  /\ d \in pendingValidate
  /\ pendingValidate' = pendingValidate \ {d}
  /\ datasets' = IF answer.ok THEN [datasets EXCEPT ![d] = StoreVerdict(@, answer)]
                  ELSE datasets
  /\ UNCHANGED <<jobs, dispatched, settled, pollingInterval, trainResponse,
                  chatRequest, chatReply, corpus>>

\* POST /api/datasets/[id]/validate with a validationReport in the body: 400
\* without a report, 404 for an unknown id, otherwise the report is stored and
\* the status is 'invalid' when it lists errors, 'valid' when it does not
ValidateReportPOST(d, report) ==
  IF report = Undefined \/ d > Len(datasets)
  THEN UNCHANGED vars
  ELSE /\ datasets' = [datasets EXCEPT
                          ![d].status = IF report = ErrorsReport THEN "invalid" ELSE "valid",
                          ![d].validationReport = report]
       /\ UNCHANGED <<jobs, pendingValidate, dispatched, settled,
                       pollingInterval, trainResponse, chatRequest, chatReply, corpus>>

\* the updates object of the dataset PATCH / PUT routes: only the keys the
\* body carries; errors, when present, replaces the report by {errors}
SetDatasetFields(row, body) ==
  [row EXCEPT
     !.status = IF body.status = Undefined THEN @ ELSE body.status,
     !.sampleCount = IF body.sampleCount = {} THEN @ ELSE body.sampleCount,
     !.validationReport =
        IF body.errors # Undefined THEN body.errors
        ELSE IF body.validationReport = Undefined THEN @ ELSE body.validationReport]

\* PATCH /api/datasets/[id]: 404 for an unknown id, 400 for a status outside
\* VALID_STATUSES, 500 when the UPDATE throws (status is NOT NULL)
DatasetPATCH(d, body) ==
  IF \/ d > Len(datasets)
     \/ body.status \notin VALID_STATUSES \cup {Undefined}
  THEN UNCHANGED vars
  ELSE /\ datasets' = [datasets EXCEPT ![d] = SetDatasetFields(@, body)]
       /\ UNCHANGED <<jobs, pendingValidate, dispatched, settled,
                       pollingInterval, trainResponse, chatRequest, chatReply, corpus>>

\* PUT /api/datasets/[id]: the same checks and UPDATE on the keys it reads
\* (no sampleCount, no errors)
DatasetPUT(d, body) ==
  IF \/ d > Len(datasets)
     \/ body.status \notin VALID_STATUSES \cup {Undefined}
  THEN UNCHANGED vars
  ELSE /\ datasets' = [datasets EXCEPT ![d] = SetDatasetFields(@, body)]
       /\ UNCHANGED <<jobs, pendingValidate, dispatched, settled,
                       pollingInterval, trainResponse, chatRequest, chatReply, corpus>>

\* ------------------------------------------------------------- training
\* the row the train routes insert into training_jobs; progress, which PATCH
\* writes and the page reads, is not given a value by the insert
\* an insert that puts the dataset id in the workspace column
NewTrainingJob_datasetIdAsWorkspace(d, log) ==
  [workspaceId |-> d, datasetId |-> d,
   status |-> "queued", progress |-> {}, log |-> log,
   modelPath |-> Null, finishedAt |-> Null]

NewTrainingJob(d, log) ==
  [workspaceId |-> datasets[d].workspaceId, datasetId |-> d,
   status |-> "queued", progress |-> {}, log |-> log,
   modelPath |-> Null, finishedAt |-> Null]

\* a train route that sends the start request without having marked the
\* dataset training
TrainPOST_dispatchUnmarked(d) ==
  IF d > Len(datasets)
  THEN /\ trainResponse' = 404
       /\ UNCHANGED <<datasets, jobs, pendingValidate, dispatched, settled,
                       pollingInterval, chatRequest, chatReply, corpus>>
  ELSE /\ Len(jobs) < MaxJobs
       /\ jobs' = Append(jobs, NewTrainingJob(d, CreatedLog))
       /\ dispatched' = dispatched \cup {Len(jobs) + 1}
       /\ trainResponse' = 201
       /\ UNCHANGED <<datasets, pendingValidate, settled, pollingInterval,
                       chatRequest, chatReply, corpus>>

\* a train route that refuses a dataset which already has a job, whatever the
\* job's status (used to test the retraining property)
TrainPOST_oneJobEver(d) ==
  IF d > Len(datasets)
  THEN /\ trainResponse' = 404
       /\ UNCHANGED <<datasets, jobs, pendingValidate, dispatched, settled,
                       pollingInterval, chatRequest, chatReply, corpus>>
  ELSE IF \E j \in 1..Len(jobs) : jobs[j].datasetId = d
  THEN /\ trainResponse' = 409
       /\ UNCHANGED <<datasets, jobs, pendingValidate, dispatched, settled,
                       pollingInterval, chatRequest, chatReply, corpus>>
  ELSE /\ Len(jobs) < MaxJobs
       /\ jobs' = Append(jobs, NewTrainingJob(d, CreatedLog))
       /\ datasets' = [datasets EXCEPT ![d].status = "training"]
       /\ dispatched' = dispatched \cup {Len(jobs) + 1}
       /\ trainResponse' = 201
       /\ UNCHANGED <<pendingValidate, settled, pollingInterval,
                       chatRequest, chatReply, corpus>>

\* POST /api/datasets/[id]/train; the start request to the trainer is fired
\* without waiting for it
TrainPOST(d) ==
  IF d > Len(datasets)
  THEN /\ trainResponse' = 404
       /\ UNCHANGED <<datasets, jobs, pendingValidate, dispatched, settled,
                       pollingInterval, chatRequest, chatReply, corpus>>
  ELSE /\ Len(jobs) < MaxJobs
       /\ jobs' = Append(jobs, NewTrainingJob(d, CreatedLog))
       /\ datasets' = [datasets EXCEPT ![d].status = "training"]
       /\ dispatched' = dispatched \cup {Len(jobs) + 1}
       /\ trainResponse' = 201
       /\ UNCHANGED <<pendingValidate, settled, pollingInterval,
                       chatRequest, chatReply, corpus>>

\* the start request of job j settles: the trainer answered (resolved) or the
\* fetch was rejected, which .catch(console.error) logs and nothing else
TrainFetchSettles(j, outcome) ==
  /\ j \in dispatched
  /\ \A o \in {"resolved", "rejected"} : <<j, o>> \notin settled
  /\ settled' = settled \cup {<<j, outcome>>}
  /\ UNCHANGED <<datasets, jobs, pendingValidate, dispatched, pollingInterval,
                  trainResponse, chatRequest, chatReply, corpus>>

\* the other POST .../train handler of the repository: the same insert with a
\* null log, the dataset set to 'parsing', nothing sent to the trainer
TrainPOST_part010(d) ==
  IF d > Len(datasets)
  THEN /\ trainResponse' = 404
       /\ UNCHANGED <<datasets, jobs, pendingValidate, dispatched, settled,
                       pollingInterval, chatRequest, chatReply, corpus>>
  ELSE /\ Len(jobs) < MaxJobs
       /\ jobs' = Append(jobs, NewTrainingJob(d, Null))
       /\ datasets' = [datasets EXCEPT ![d].status = "parsing"]
       /\ trainResponse' = 201
       /\ UNCHANGED <<pendingValidate, dispatched, settled, pollingInterval,
                       chatRequest, chatReply, corpus>>

\* db.update(trainingJobs).set({...}): a key whose value is undefined is left
\* out of the UPDATE; finishedAt is always written (body.finishedAt || null)
SetFields(job, body) ==
  [job EXCEPT
     !.status = IF body.status = Undefined THEN @ ELSE body.status,
     !.progress = IF body.progress = {} THEN @ ELSE body.progress,
     !.log = IF body.log = Undefined THEN @ ELSE body.log,
     !.modelPath = IF body.modelPath = Undefined THEN @ ELSE body.modelPath,
     !.finishedAt = IF body.finishedAt = Undefined THEN Null ELSE body.finishedAt]

\* PATCH /api/training-jobs/[id]: 404 when no row has the id; 500 when the
\* UPDATE throws (status is NOT NULL); otherwise the row takes the body's keys
PATCH(j, body) ==
  IF j > Len(jobs) \/ body.status = Null
  THEN UNCHANGED vars
  ELSE /\ jobs' = [jobs EXCEPT ![j] = SetFields(@, body)]
       /\ UNCHANGED <<datasets, pendingValidate, dispatched, settled,
                       pollingInterval, trainResponse, chatRequest, chatReply, corpus>>

\* ------------------------------------------------------- workspace page
\* the page keeps a 2 s interval on its current job while that job's
\* snapshot is queued or training, and clears it otherwise
Interval(j) == IF jobs[j].status \in ActiveStatuses THEN j ELSE 0

\* fetchTrainingJobs: the latest job of the workspace becomes the current one
fetchTrainingJobs(w) ==
  LET mine == {j \in 1..Len(jobs) : jobs[j].workspaceId = w} IN
  /\ mine # {}
  /\ pollingInterval' = Interval(CHOOSE j \in mine : \A k \in mine : k <= j)
  /\ UNCHANGED <<datasets, jobs, pendingValidate, dispatched, settled,
                  trainResponse, chatRequest, chatReply, corpus>>

\* one tick of the interval: GET /api/training-jobs/[id], store the snapshot
fetchTrainingJobStatus ==
  /\ pollingInterval # 0
  /\ pollingInterval' = Interval(pollingInterval)
  /\ UNCHANGED <<datasets, jobs, pendingValidate, dispatched, settled,
                  trainResponse, chatRequest, chatReply, corpus>>

\* ------------------------------------------------------------------ chat
\* ---- the fallback engine of the chat route (class FallbackAI) ----

\* the catalog, in declaration order; id n stands for 'prod_n', prices are in
\* cents and sustainability scores in hundredths
Product(id, price, score, category, mood) ==
  [id |-> id, price |-> price, sustainability_score |-> score,
   category |-> category, mood |-> mood]
products ==
  << Product(1, 4999, 92, "clothing", <<"tired", "lazy", "stressed">>),
     Product(2, 7999, 95, "fitness", <<"stressed", "adventurous">>),
     Product(3, 6499, 88, "clothing", <<"tired", "lazy">>),
     Product(4, 19999, 73, "electronics", <<"excited", "adventurous">>),
     Product(5, 8999, 91, "clothing", <<"excited", "adventurous">>),
     Product(6, 3499, 96, "wellness", <<"stressed", "tired">>),
     Product(7, 12999, 89, "footwear", <<"adventurous", "excited">>),
     Product(8, 2499, 94, "food", <<"tired", "stressed", "lazy">>) >>

\* String.prototype.toLowerCase on the ASCII letters
UpperCase == "ABCDEFGHIJKLMNOPQRSTUVWXYZ"
LowerCase == "abcdefghijklmnopqrstuvwxyz"
charAt(s, i) == SubSeq(s, i, i)
toLowerChar(c) ==
  IF \E i \in 1..Len(UpperCase) : charAt(UpperCase, i) = c
  THEN charAt(LowerCase, CHOOSE i \in 1..Len(UpperCase) : charAt(UpperCase, i) = c)
  ELSE c
RECURSIVE toLowerCase(_)
toLowerCase(s) ==
  IF s = "" THEN ""
  ELSE toLowerChar(charAt(s, 1)) \o toLowerCase(SubSeq(s, 2, Len(s)))

\* String.prototype.includes: pat occurs in msg as a substring
includes(msg, pat) ==
  \E i \in 1..(Len(msg) - Len(pat) + 1) : SubSeq(msg, i, i + Len(pat) - 1) = pat

\* \d of the regular expression, and the value of a digit
Digits == "0123456789"
isDigit(c) == \E i \in 1..Len(Digits) : charAt(Digits, i) = c
digitValue(c) == (CHOOSE i \in 1..Len(Digits) : charAt(Digits, i) = c) - 1

\* a match that takes the last run of digits of msg instead of the first
match_lastDigits(msg) ==
  IF \A i \in 1..Len(msg) : ~isDigit(charAt(msg, i))
  THEN {}
  ELSE LET last == CHOOSE i \in 1..Len(msg) :
                     /\ isDigit(charAt(msg, i))
                     /\ \A k \in (i + 1)..Len(msg) : ~isDigit(charAt(msg, k))
           first == CHOOSE i \in 1..last :
                      /\ \A k \in i..last : isDigit(charAt(msg, k))
                      /\ (i = 1 \/ ~isDigit(charAt(msg, i - 1)))
       IN {SubSeq(msg, first, last)}

\* msg.match(/\$?(\d+)/): no match ({}) when msg holds no digit; otherwise the
\* leftmost match, whose group 1 is the first digit of msg and, \d+ being
\* greedy, every digit that follows it without a gap
match(msg) ==
  IF \A i \in 1..Len(msg) : ~isDigit(charAt(msg, i))
  THEN {}
  ELSE LET first == CHOOSE i \in 1..Len(msg) :
                      /\ isDigit(charAt(msg, i))
                      /\ \A k \in 1..(i - 1) : ~isDigit(charAt(msg, k))
           last == CHOOSE j \in first..Len(msg) :
                     /\ \A k \in first..j : isDigit(charAt(msg, k))
                     /\ (j = Len(msg) \/ ~isDigit(charAt(msg, j + 1)))
       IN {SubSeq(msg, first, last)}

\* parseInt of a string of digits
RECURSIVE parseInt(_)
parseInt(digits) ==
  IF digits = "" THEN 0
  ELSE 10 * parseInt(SubSeq(digits, 1, Len(digits) - 1))
         + digitValue(charAt(digits, Len(digits)))

Classification(intent, entities) == [intent |-> intent, entities |-> entities]
Mood(m) == [NoEntities EXCEPT !.mood = {m}]
Category(c) == [NoEntities EXCEPT !.category = {c}]
MaxPrice(n) == [NoEntities EXCEPT !.max_price = {n}]

\* the price ceiling of a price-filter message
maxPrice(msg) ==
  LET priceMatch == match(msg)
  IN IF priceMatch # {} THEN parseInt(CHOOSE g \in priceMatch : TRUE) ELSE 100

\* the chain of tests with the product search tested before the moods
matchIntent_categoryFirst(msg) ==
  IF includes(msg, "shoes") \/ includes(msg, "sneakers") \/ includes(msg, "footwear")
  THEN Classification("product_search", Category("footwear"))
  ELSE IF includes(msg, "clothes") \/ includes(msg, "clothing") \/ includes(msg, "outfit")
  THEN Classification("product_search", Category("clothing"))
  ELSE IF includes(msg, "electronics") \/ includes(msg, "headphones") \/ includes(msg, "gadget")
  THEN Classification("product_search", Category("electronics"))
  ELSE IF includes(msg, "tired") \/ includes(msg, "exhausted") \/ includes(msg, "sleepy")
  THEN Classification("mood_tired", Mood("tired"))
  ELSE IF includes(msg, "stressed") \/ includes(msg, "anxiety") \/ includes(msg, "overwhelmed")
  THEN Classification("mood_stressed", Mood("stressed"))
  ELSE IF includes(msg, "excited") \/ includes(msg, "energetic") \/ includes(msg, "party")
  THEN Classification("mood_excited", Mood("excited"))
  ELSE IF includes(msg, "lazy") \/ includes(msg, "chill") \/ includes(msg, "relax")
  THEN Classification("mood_lazy", Mood("lazy"))
  ELSE IF includes(msg, "adventurous") \/ includes(msg, "active") \/ includes(msg, "outdoors")
  THEN Classification("mood_adventurous", Mood("adventurous"))
  ELSE IF includes(msg, "eco") \/ includes(msg, "sustainable") \/ includes(msg, "green")
          \/ includes(msg, "environment")
  THEN Classification("sustainability", NoEntities)
  ELSE IF includes(msg, "under") \/ includes(msg, "below") \/ includes(msg, "cheap")
          \/ includes(msg, "budget")
  THEN Classification("price_filter", MaxPrice(maxPrice(msg)))
  ELSE IF includes(msg, "track") \/ includes(msg, "order") \/ includes(msg, "delivery")
          \/ includes(msg, "shipping")
  THEN Classification("track_order", NoEntities)
  ELSE IF includes(msg, "hello") \/ includes(msg, "hi") \/ includes(msg, "hey")
          \/ includes(msg, "start")
  THEN Classification("greet", NoEntities)
  ELSE IF includes(msg, "help") \/ includes(msg, "what can you do")
  THEN Classification("help", NoEntities)
  ELSE Classification("general", NoEntities)

\* the chain of tests of detectIntent on the lower-cased message: the first
\* test that succeeds returns
matchIntent(msg) ==
  IF includes(msg, "tired") \/ includes(msg, "exhausted") \/ includes(msg, "sleepy")
  THEN Classification("mood_tired", Mood("tired"))
  ELSE IF includes(msg, "stressed") \/ includes(msg, "anxiety") \/ includes(msg, "overwhelmed")
  THEN Classification("mood_stressed", Mood("stressed"))
  ELSE IF includes(msg, "excited") \/ includes(msg, "energetic") \/ includes(msg, "party")
  THEN Classification("mood_excited", Mood("excited"))
  ELSE IF includes(msg, "lazy") \/ includes(msg, "chill") \/ includes(msg, "relax")
  THEN Classification("mood_lazy", Mood("lazy"))
  ELSE IF includes(msg, "adventurous") \/ includes(msg, "active") \/ includes(msg, "outdoors")
  THEN Classification("mood_adventurous", Mood("adventurous"))
  ELSE IF includes(msg, "shoes") \/ includes(msg, "sneakers") \/ includes(msg, "footwear")
  THEN Classification("product_search", Category("footwear"))
  ELSE IF includes(msg, "clothes") \/ includes(msg, "clothing") \/ includes(msg, "outfit")
  THEN Classification("product_search", Category("clothing"))
  ELSE IF includes(msg, "electronics") \/ includes(msg, "headphones") \/ includes(msg, "gadget")
  THEN Classification("product_search", Category("electronics"))
  ELSE IF includes(msg, "eco") \/ includes(msg, "sustainable") \/ includes(msg, "green")
          \/ includes(msg, "environment")
  THEN Classification("sustainability", NoEntities)
  ELSE IF includes(msg, "under") \/ includes(msg, "below") \/ includes(msg, "cheap")
          \/ includes(msg, "budget")
  THEN Classification("price_filter", MaxPrice(maxPrice(msg)))
  ELSE IF includes(msg, "track") \/ includes(msg, "order") \/ includes(msg, "delivery")
          \/ includes(msg, "shipping")
  THEN Classification("track_order", NoEntities)
  ELSE IF includes(msg, "hello") \/ includes(msg, "hi") \/ includes(msg, "hey")
          \/ includes(msg, "start")
  THEN Classification("greet", NoEntities)
  ELSE IF includes(msg, "help") \/ includes(msg, "what can you do")
  THEN Classification("help", NoEntities)
  ELSE Classification("general", NoEntities)

MoodIntents ==
  {"mood_tired", "mood_stressed", "mood_excited", "mood_lazy", "mood_adventurous"}

\* a detectIntent that keeps the mood of the previous reply
detectIntent_remembersMood(message) ==
  IF chatReply.intent \in MoodIntents
  THEN Classification(chatReply.intent, chatReply.entities)
  ELSE matchIntent(toLowerCase(message.value))

\* detectIntent of a string message
detectIntent(message) == matchIntent(toLowerCase(message.value))

\* Array.prototype.filter with the predicate given as the set of the ids it keeps
RECURSIVE filter(_, _)
filter(list, keep) ==
  IF list = <<>> THEN <<>>
  ELSE (IF Head(list).id \in keep THEN <<Head(list)>> ELSE <<>>)
         \o filter(Tail(list), keep)

\* a slice that keeps the element at index end as well
slice_inclusiveEnd(list, start, end) ==
  SubSeq(list, start + 1, IF end + 1 < Len(list) THEN end + 1 ELSE Len(list))

\* Array.prototype.slice(start, end) for 0 <= start <= end
slice(list, start, end) ==
  SubSeq(list, start + 1, IF end < Len(list) THEN end ELSE Len(list))

\* Array.prototype.sort with a consistent comparator: stable since ES2019, so
\* elements that compare equal keep their order
RECURSIVE insertSorted(_, _, _)
insertSorted(sorted, p, compare) ==
  IF sorted = <<>> THEN <<p>>
  ELSE IF compare[Head(sorted).id, p.id] <= 0
  THEN <<Head(sorted)>> \o insertSorted(Tail(sorted), p, compare)
  ELSE <<p>> \o sorted
RECURSIVE sort(_, _)
sort(list, compare) ==
  IF list = <<>> THEN <<>>
  ELSE insertSorted(sort(SubSeq(list, 1, Len(list) - 1), compare),
                    list[Len(list)], compare)

ProductIds == 1..Len(products)

\* a comparator that ranks the lowest sustainability score first
bySustainability_ascending(a, b) ==
  products[a].sustainability_score - products[b].sustainability_score

\* the comparators of the sustainability and price-filter branches
bySustainability(a, b) ==
  products[b].sustainability_score - products[a].sustainability_score
byPrice(a, b) == products[a].price - products[b].price

\* [...this.products].sort(() => Math.random() - 0.5).slice(0, 3): the random
\* comparator can leave any three products, in any order, at the front
Shuffled ==
  {<<products[a], products[b], products[c]>> :
     <<a, b, c>> \in {t \in ProductIds \X ProductIds \X ProductIds :
                        t[1] # t[2] /\ t[1] # t[3] /\ t[2] # t[3]}}
NotShuffled == {<<>>}

hasMood(p, mood) == \E i \in 1..Len(p.mood) : p.mood[i] = mood
ids(list) == [i \in 1..Len(list) |-> list[i].id]

\* getResponse: the products of the one message it returns; front is the
\* front of the shuffled copy, which only the default branch makes
getResponse(intent, entities, front) ==
  CASE intent \in {"greet", "track_order", "help"} -> <<>>
    [] intent \in MoodIntents ->
         LET mood == SubSeq(intent, Len("mood_") + 1, Len(intent))
         IN ids(slice(filter(products, {p \in ProductIds : hasMood(products[p], mood)}), 0, 3))
    [] intent = "product_search" ->
         LET category == IF entities.category # {}
                         THEN CHOOSE c \in entities.category : TRUE
                         ELSE "clothing"
         IN ids(slice(filter(products, {p \in ProductIds : products[p].category = category}), 0, 3))
    [] intent = "sustainability" ->
         ids(slice(sort(filter(products, {p \in ProductIds : products[p].sustainability_score > 85}),
                        [a \in ProductIds, b \in ProductIds |-> bySustainability(a, b)]), 0, 3))
    [] intent = "price_filter" ->
         \* entities.max_price || 100: a max_price of 0 is falsy
         LET maxPriceOr100 == IF entities.max_price # {} /\ entities.max_price # {0}
                              THEN CHOOSE n \in entities.max_price : TRUE
                              ELSE 100
         IN ids(slice(sort(filter(products, {p \in ProductIds : products[p].price <= maxPriceOr100 * 100}),
                           [a \in ProductIds, b \in ProductIds |-> byPrice(a, b)]), 0, 3))
    [] OTHER -> ids(slice(front, 0, 3))

\* fallbackAI.processMessage: detectIntent starts with message.toLowerCase(),
\* which throws a TypeError for a message that is not a string
processMessageThrows(message) == message.type # "string"

\* fallbackAI.processMessage of a string: the replies it can give, one for
\* each outcome of the shuffle when the default branch runs
processMessage(message) ==
  LET c == detectIntent(message)
  IN {Reply(200, "fallback", c.intent, c.entities,
            getResponse(c.intent, c.entities, front)) :
        front \in IF c.intent = "general" THEN Shuffled ELSE NotShuffled}

\* POST /api/chat: 400 without message or sender; Rasa's messages when Rasa
\* answers OK with a list; otherwise (the inner try threw or the answer was not
\* OK) the fallback engine's reply; 500 when the fallback engine throws
ChatPOST(message, sender, rasa) ==
  /\ chatRequest' = [message |-> message, sender |-> sender, rasa |-> rasa]
  /\ chatReply' \in
       IF ~Truthy(message) \/ ~Truthy(sender)
       THEN {Reply(400, "none", "none", NoEntities, <<>>)}
       ELSE IF rasa = "ok"
       THEN {Reply(200, "rasa", "none", NoEntities, <<>>)}
       ELSE IF processMessageThrows(message)
       THEN {Reply(500, "none", "none", NoEntities, <<>>)}
       ELSE processMessage(message)
  /\ UNCHANGED <<datasets, jobs, pendingValidate, dispatched, settled,
                  pollingInterval, trainResponse, corpus>>

\* ---- dataset files and their normalization ----

\* the formats the upload route derives from the file name
Formats == {"csv", "json", "rasa"}

\* logical examples: a text, its intent and at most one entity, whose value
\* occurs in the text
Entity(entity, value) == [entity |-> entity, value |-> value]
Example(text, intent, entities) ==
  [text |-> text, intent |-> intent, entities |-> entities]
ExamplePool ==
  {Example("I want shoes", "product_search", <<Entity("product", "shoes")>>),
   Example("Show me clothing", "product_search", <<Entity("product", "clothing")>>),
   Example("Show eco products", "sustainability", <<>>),
   Example("fly to rome", "book_flight", <<Entity("city", "rome")>>)}
ExampleLists ==
  UNION {[1..n -> ExamplePool] : n \in 1..MaxExamples}

\* String.prototype.indexOf, 1-based, 0 when pat does not occur
indexOf(s, pat) ==
  IF includes(s, pat)
  THEN CHOOSE i \in 1..(Len(s) - Len(pat) + 1) :
         /\ SubSeq(s, i, i + Len(pat) - 1) = pat
         /\ \A k \in 1..(i - 1) : SubSeq(s, k, k + Len(pat) - 1) # pat
  ELSE 0
before(s, pat) == SubSeq(s, 1, indexOf(s, pat) - 1)
after(s, pat) == SubSeq(s, indexOf(s, pat) + Len(pat), Len(s))
startsWith(s, pat) == Len(s) >= Len(pat) /\ SubSeq(s, 1, Len(pat)) = pat

\* the csv file of a list of examples: the header row and one row of three
\* cells for each example, the third the JSON text of its entities
EntitiesJson(entities) ==
  IF entities = <<>> THEN "[]"
  ELSE "[{\"entity\":\"" \o entities[1].entity \o "\",\"value\":\""
         \o entities[1].value \o "\"}]"
CsvFile(examples) ==
  << <<"text", "intent", "entities">> >> \o
  [i \in 1..Len(examples) |->
     <<examples[i].text, examples[i].intent, EntitiesJson(examples[i].entities)>>]

\* the json file: an array with one object for each example
JsonFile(examples) ==
  [i \in 1..Len(examples) |->
     [type |-> "object", text |-> {examples[i].text},
      intent |-> {examples[i].intent}, entities |-> examples[i].entities]]

\* the Rasa YAML file: its lines, with one intent block for each example and
\* the entity marked in the text as [value](entity)
MarkUp(example) ==
  IF example.entities = <<>> THEN example.text
  ELSE LET e == example.entities[1]
       IN before(example.text, e.value) \o "[" \o e.value \o "](" \o e.entity
            \o ")" \o after(example.text, e.value)
RECURSIVE RasaBlocks(_)
RasaBlocks(examples) ==
  IF examples = <<>> THEN <<>>
  ELSE << "- intent: " \o Head(examples).intent,
          "  examples: |",
          "    - " \o MarkUp(Head(examples)) >> \o RasaBlocks(Tail(examples))
RasaFile(examples) == <<"nlu:">> \o RasaBlocks(examples)

File(examples, format) ==
  CASE format = "csv" -> CsvFile(examples)
    [] format = "json" -> JsonFile(examples)
    [] format = "rasa" -> RasaFile(examples)

\* the answer of POST /datasets/validate
Valid(accepted) ==
  [valid |-> TRUE,
   intents |-> {accepted[i].intent : i \in 1..Len(accepted)},
   entities |-> {accepted[i].entities[k].entity :
                   <<i, k>> \in {p \in (1..Len(accepted)) \X (1..MaxEntities) :
                                   p[2] <= Len(accepted[p[1]].entities)}},
   sample_count |-> Len(accepted)]
Invalid == [valid |-> FALSE, intents |-> {}, entities |-> {}, sample_count |-> 0]

\* the JSON text of an entities cell, parsed: the entity and value of its
\* object, none for an empty array or an empty cell
ParseEntitiesJson(cell) ==
  IF includes(cell, "\"entity\":\"") /\ includes(cell, "\"value\":\"")
  THEN <<Entity(before(after(cell, "\"entity\":\""), "\""),
                before(after(cell, "\"value\":\""), "\""))>>
  ELSE <<>>

\* csv: each row after the header is one example; a row without text or
\* intent is dropped
RECURSIVE CsvExamples(_)
CsvExamples(rows) ==
  IF rows = <<>> THEN <<>>
  ELSE (IF Len(Head(rows)) >= 2 /\ Head(rows)[1] # "" /\ Head(rows)[2] # ""
        THEN <<Example(Head(rows)[1], Head(rows)[2],
                       IF Len(Head(rows)) >= 3
                       THEN ParseEntitiesJson(Head(rows)[3]) ELSE <<>>)>>
        ELSE <<>>) \o CsvExamples(Tail(rows))

\* json: each object with a text and an intent is one example; elements that
\* are not objects are skipped
RECURSIVE JsonExamples(_)
JsonExamples(elements) ==
  IF elements = <<>> THEN <<>>
  ELSE (IF /\ Head(elements).type = "object"
           /\ Head(elements).text # {}
           /\ Head(elements).intent # {}
        THEN <<Example(CHOOSE t \in Head(elements).text : TRUE,
                       CHOOSE i \in Head(elements).intent : TRUE,
                       Head(elements).entities)>>
        ELSE <<>>) \o JsonExamples(Tail(elements))

\* an example line without its inline markup, and the entities marked in it
ParseMarkup(line) ==
  IF includes(line, "[") /\ includes(after(line, "["), "](")
       /\ includes(after(after(line, "["), "]("), ")")
  THEN LET value == before(after(line, "["), "](")
           rest == after(after(line, "["), "](")
       IN [text |-> before(line, "[") \o value \o after(rest, ")"),
           entities |-> <<Entity(before(rest, ")"), value)>>]
  ELSE [text |-> line, entities |-> <<>>]

\* Rasa YAML: the examples of each intent block, under the intent of the block
RECURSIVE RasaExamples(_, _)
RasaExamples(lines, intent) ==
  IF lines = <<>> THEN <<>>
  ELSE IF startsWith(Head(lines), "- intent: ")
  THEN RasaExamples(Tail(lines), after(Head(lines), "- intent: "))
  ELSE IF startsWith(Head(lines), "    - ") /\ intent # ""
  THEN LET parsed == ParseMarkup(after(Head(lines), "    - "))
       IN <<Example(parsed.text, intent, parsed.entities)>>
            \o RasaExamples(Tail(lines), intent)
  ELSE RasaExamples(Tail(lines), intent)

\* the Format Normalizer: the examples it accepts from a file of a format,
\* and its answer, invalid when it accepts none
Accepted(file, format) ==
  CASE format = "csv" -> CsvExamples(Tail(file))
    [] format = "json" -> JsonExamples(file)
    [] format = "rasa" -> RasaExamples(file, "")
Normalize(file, format) ==
  IF Accepted(file, format) = <<>> THEN Invalid
  ELSE Valid(Accepted(file, format))

\* the dataset row of an uploaded file; intents, entities and sampleCount are
\* empty until a validation writes them
UploadedFile(examples, format) ==
  [format |-> format, file |-> File(examples, format), status |-> "uploaded",
   intents |-> {}, entities |-> {}, sampleCount |-> {}]

\* a validation that stores no sample count
StoreNormalization_noCount(row, answer) ==
  [row EXCEPT !.status = IF answer.valid THEN "validated" ELSE "error",
              !.intents = {answer.intents},
              !.entities = {answer.entities},
              !.sampleCount = {0}]

\* POST /api/datasets/[id]/validate: what the route writes from the answer
StoreNormalization(row, answer) ==
  [row EXCEPT !.status = IF answer.valid THEN "validated" ELSE "error",
              !.intents = {answer.intents},
              !.entities = {answer.entities},
              !.sampleCount = {answer.sample_count}]

\* the same examples are uploaded as a csv, a json and a Rasa YAML file
UploadFiles(examples) ==
  /\ corpus' = [examples |-> examples,
                rows |-> [f \in Formats |-> UploadedFile(examples, f)]]
  /\ UNCHANGED <<datasets, jobs, pendingValidate, dispatched, settled,
                  pollingInterval, trainResponse, chatRequest, chatReply>>

\* the validation of the file of one format
ValidateFile(format) ==
  /\ corpus.examples # <<>>
  /\ corpus' = [corpus EXCEPT !.rows[format] =
                  StoreNormalization(@, Normalize(@.file, @.format))]
  /\ UNCHANGED <<datasets, jobs, pendingValidate, dispatched, settled,
                  pollingInterval, trainResponse, chatRequest, chatReply>>

NormalizerNext ==
  \/ \E examples \in ExampleLists : UploadFiles(examples)
  \/ \E format \in Formats : ValidateFile(format)

NormalizerSpec == Init /\ [][NormalizerNext]_vars

\* The chat route keeps no state: each request is answered on its own.
ChatNext ==
  \E message \in Messages, sender \in Senders, rasa \in RasaOutcomes :
    ChatPOST(message, sender, rasa)

ChatSpec == Init /\ [][ChatNext]_vars

\* The job routes and the page: every step that reads or writes training_jobs.
Next ==
  \/ \E w \in Workspaces : Upload(w)
  \/ \E d \in DatasetIds, answer \in PythonAnswers : ValidatePOST(d, answer)
  \/ \E d \in DatasetIds : TrainPOST(d)
  \/ \E d \in DatasetIds : TrainPOST_part010(d)
  \/ \E j \in JobIds, body \in Bodies : PATCH(j, body)
  \/ \E w \in Workspaces : fetchTrainingJobs(w)
  \/ fetchTrainingJobStatus

Spec == Init /\ [][Next]_vars

\* The only step the code schedules by itself is the page's interval tick.
FairSpec == Spec /\ WF_vars(fetchTrainingJobStatus)

\* The dataset routes and the requests the handlers fire and forget: every
\* step that writes datasets, and the settling of what upload and train sent.
\* PATCH /api/training-jobs/[id] and the page write neither.
RegistryNext ==
  \/ \E w \in Workspaces : Upload(w)
  \/ \E d \in DatasetIds, answer \in PythonAnswers : ValidatePOST(d, answer)
  \/ \E d \in DatasetIds, answer \in PythonAnswers : UploadValidate(d, answer)
  \/ \E d \in DatasetIds, r \in {Undefined, EmptyReport, ErrorsReport} :
        ValidateReportPOST(d, r)
  \/ \E d \in DatasetIds, body \in DatasetBodies : DatasetPATCH(d, body)
  \/ \E d \in DatasetIds, body \in PutBodies : DatasetPUT(d, body)
  \/ \E d \in DatasetIds : TrainPOST(d)
  \/ \E d \in DatasetIds : TrainPOST_part010(d)
  \/ \E j \in JobIds, o \in {"resolved", "rejected"} : TrainFetchSettles(j, o)

RegistrySpec == Init /\ [][RegistryNext]_vars

\* A request that was fired is eventually served or rejected.
FairRegistrySpec ==
  /\ RegistrySpec
  /\ WF_vars(\E d \in DatasetIds, answer \in PythonAnswers : UploadValidate(d, answer))
  /\ WF_vars(\E j \in JobIds, o \in {"resolved", "rejected"} : TrainFetchSettles(j, o))

\* ------------------------------------------------------------- helpers
ExistingJobs == 1..Len(jobs)
ActiveJobsOf(d) ==
  {j \in ExistingJobs : jobs[j].datasetId = d /\ jobs[j].status \in ActiveStatuses}
TrainStep(d) == TrainPOST(d) \/ TrainPOST_part010(d)
Rejected == trainResponse' >= 400
IsTraining(j) == j <= Len(jobs) /\ jobs[j].status = "training"
\* two reports are the same terminal report: same status, artifact, error detail
SameReport(a, b) ==
  a.status = b.status /\ a.modelPath = b.modelPath /\ a.log = b.log

\* --------------------------------------------------------------- claims

\* C1: in every reachable state each dataset has at most one TrainingJob
\* whose status is queued or training.
C1_AtMostOneActiveJob ==
  \A d \in DatasetIds : Cardinality(ActiveJobsOf(d)) <= 1

\* C2: a train request on a dataset that already has a queued or training job
\* is rejected and has no side effect: no job is created and the dataset's
\* status is unchanged.
C2_ActiveJobRejectsTrain ==
  [][\A d \in DatasetIds :
       (ActiveJobsOf(d) # {} /\ TrainStep(d))
         => (Rejected /\ jobs' = jobs /\ datasets' = datasets)]_vars

\* C3: a train request on a dataset whose status is not validated is rejected:
\* no job is created, the dataset is unchanged, nothing is dispatched.
C3_UnvalidatedRejectsTrain ==
  [][\A d \in DatasetIds :
       (d <= Len(datasets) /\ datasets[d].status # "validated" /\ TrainStep(d))
         => (Rejected /\ jobs' = jobs /\ datasets' = datasets
             /\ dispatched' = dispatched)]_vars

\* C4: a job's progress never decreases, and an update that carries a progress
\* lower than the recorded one leaves the job unchanged.
C4_ProgressMonotonic ==
  [][\A j \in ExistingJobs : \A p \in jobs[j].progress :
       /\ \A q \in jobs'[j].progress : q >= p
       /\ \A b \in Bodies :
            (PATCH(j, b) /\ \E q \in b.progress : q < p) => jobs'[j] = jobs[j]]_vars

\* C5: a terminal report delivered again (same status, same modelPath, same
\* error detail) to a job that is as the first delivery left it changes
\* neither the job's status, modelPath, log and finishedAt nor any dataset.
C5_TerminalReportIdempotent ==
  [][\A j \in ExistingJobs : \A first \in Bodies, again \in Bodies :
       (/\ first.status \in TerminalStatuses
        /\ jobs[j] = SetFields(jobs[j], first)
        /\ SameReport(first, again)
        /\ PATCH(j, again))
         => /\ jobs'[j].status = jobs[j].status
            /\ jobs'[j].modelPath = jobs[j].modelPath
            /\ jobs'[j].log = jobs[j].log
            /\ jobs'[j].finishedAt = jobs[j].finishedAt
            /\ datasets' = datasets]_vars

\* C6: once a job's status is completed or failed no step changes it.
C6_TerminalAbsorbing ==
  [][\A j \in ExistingJobs :
       jobs[j].status \in TerminalStatuses => jobs'[j].status = jobs[j].status]_vars

\* C7: the step that first makes a job completed (failed) sets the dataset it
\* was trained from to trained (error).
C7_TerminalUpdatesDataset ==
  [][\A j \in ExistingJobs :
       (jobs[j].status \notin TerminalStatuses /\ jobs'[j].status \in TerminalStatuses)
         => datasets'[jobs[j].datasetId].status =
              (IF jobs'[j].status = "completed" THEN "trained" ELSE "error")]_vars

\* C8: in every reachable state a job's finishedAt is set if and only if its
\* status is completed or failed.
C8_FinishedAtIffTerminal ==
  \A j \in ExistingJobs :
    (jobs[j].finishedAt # Null) <=> (jobs[j].status \in TerminalStatuses)

\* C9: in every reachable state a job's modelPath is set if and only if its
\* status is completed.
C9_ModelPathIffCompleted ==
  \A j \in ExistingJobs :
    (jobs[j].modelPath # Null) <=> (jobs[j].status = "completed")

\* C10: a job does not stay in training forever once status updates for it
\* stop arriving: it can remain in training for ever only while updates for it
\* keep changing the registry.
C10_StaleJobLeavesTraining ==
  \A j \in JobIds :
    <>[]IsTraining(j) => []<><<\E b \in Bodies : PATCH(j, b)>>_vars

\* C11: a job whose start request was rejected (trainer unreachable or
\* refusing) does not stay queued: it eventually is failed, with the transport
\* error in its log.
C11_DispatchFailureFailsJob ==
  \A j \in JobIds :
    (<<j, "rejected">> \in settled)
      ~> (/\ j \in ExistingJobs
          /\ jobs[j].status = "failed"
          /\ jobs[j].log \notin {Null, CreatedLog})

\* C12: a train request that succeeds on a validated dataset without active
\* job appends exactly one job for that dataset (queued, no modelPath, no
\* finishedAt), sets the dataset's status to training, sends one start request
\* carrying the new job's id, and changes no other dataset or job.
C12_StartTrainingFrame ==
  [][\A d \in DatasetIds :
       (/\ d <= Len(datasets)
        /\ datasets[d].status = "validated"
        /\ ActiveJobsOf(d) = {}
        /\ TrainStep(d)
        /\ trainResponse' = 201)
         => /\ Len(jobs') = Len(jobs) + 1
            /\ SubSeq(jobs', 1, Len(jobs)) = jobs
            /\ jobs'[Len(jobs')].datasetId = d
            /\ jobs'[Len(jobs')].status = "queued"
            /\ jobs'[Len(jobs')].modelPath = Null
            /\ jobs'[Len(jobs')].finishedAt = Null
            /\ datasets' = [datasets EXCEPT ![d].status = "training"]
            /\ dispatched' = dispatched \cup {Len(jobs')}]_vars

\* C13: a job's status is always queued, training, completed or failed, and a
\* step changes it only from queued to training, from training to completed,
\* or from queued or training to failed.
AllowedTransitions ==
  {<<"queued", "training">>, <<"training", "completed">>,
   <<"queued", "failed">>, <<"training", "failed">>}
C13_StatusTransitions ==
  [][\A j \in ExistingJobs :
       /\ jobs[j].status \in ActiveStatuses \cup TerminalStatuses
       /\ jobs'[j].status \in ActiveStatuses \cup TerminalStatuses
       /\ (jobs'[j].status # jobs[j].status
             => <<jobs[j].status, jobs'[j].status>> \in AllowedTransitions)]_vars

\* C14: in every reachable state a dataset whose status is validated has
\* sampleCount > 0 and a validationReport that is absent or empty.
C14_ValidatedHasSamples ==
  \A d \in 1..Len(datasets) :
    datasets[d].status = "validated"
      => /\ \E n \in datasets[d].sampleCount : n > 0
         /\ datasets[d].validationReport \in {Null, EmptyReport}

\* C15: in every reachable state a dataset whose status is error carries a
\* non-empty validationReport.
C15_ErrorHasReport ==
  \A d \in 1..Len(datasets) :
    datasets[d].status = "error" => datasets[d].validationReport = ErrorsReport

\* C16: in every reachable state a job whose status is failed has a non-empty
\* log.
C16_FailedHasLog ==
  \A j \in ExistingJobs :
    jobs[j].status = "failed" => jobs[j].log \notin {Null, ""}

\* C17: every uploaded dataset eventually leaves status uploaded: once its
\* upload has triggered the validation, the dataset does not stay uploaded.
C17_UploadedGetsVerdict ==
  \A d \in DatasetIds :
    (d \in pendingValidate /\ datasets[d].status = "uploaded")
      ~> (d <= Len(datasets) /\ datasets[d].status # "uploaded")

\* C18: in every reachable state every dataset's status is one of uploaded,
\* parsing, validated, training, trained, error.
C18_DatasetStatusDomain ==
  \A d \in 1..Len(datasets) :
    datasets[d].status \in
      {"uploaded", "parsing", "validated", "training", "trained", "error"}

\* C19: retraining is reachable: a train request on a dataset all of whose
\* jobs are completed or failed succeeds and adds one more job for the
\* dataset, queued, which is then the dataset's only active job.
JobsOf(d) == {j \in ExistingJobs : jobs[j].datasetId = d}
C19_RetrainingSucceeds ==
  [][\A d \in DatasetIds :
       (/\ JobsOf(d) # {}
        /\ \A j \in JobsOf(d) : jobs[j].status \in TerminalStatuses
        /\ TrainStep(d))
         => /\ trainResponse' = 201
            /\ Len(jobs') = Len(jobs) + 1
            /\ SubSeq(jobs', 1, Len(jobs)) = jobs
            /\ jobs'[Len(jobs')].datasetId = d
            /\ jobs'[Len(jobs')].status = "queued"
            /\ ActiveJobsOf(d)' = {Len(jobs')}]_vars

\* a dataset with a finished job and a later job, fresh from its creation,
\* that is its only active one
C19_Retrained ==
  \E d \in DatasetIds : \E j1 \in JobsOf(d), j2 \in JobsOf(d) :
    /\ j1 < j2
    /\ jobs[j1].status \in TerminalStatuses
    /\ jobs[j2] = NewTrainingJob(d, jobs[j2].log)
    /\ ActiveJobsOf(d) = {j2}

\* C20: a chat request that carries a message and a sender and whose call to
\* the trained model fails (network error, timeout, non-OK status, unusable
\* body) is answered with status 200 by the fallback engine.
C20_ChatFallsBack ==
  (/\ Truthy(chatRequest.message)
   /\ Truthy(chatRequest.sender)
   /\ chatRequest.rasa \in RasaOutcomes \ {"ok"})
    => (chatReply.status = 200 /\ chatReply.engine = "fallback")

\* the intents detectIntent can return
Intents ==
  MoodIntents \cup {"product_search", "sustainability", "price_filter",
                    "track_order", "greet", "help", "general"}

\* C21: the fallback engine never fails: every message that passes the
\* validation of the chat route and reaches the fallback engine is classified
\* with one intent of the fixed set and answered with a list of products,
\* without an error.
C21_FallbackNeverFails ==
  (/\ Truthy(chatRequest.message)
   /\ Truthy(chatRequest.sender)
   /\ chatRequest.rasa # "ok"
   /\ chatRequest.rasa # "none")
    => (/\ chatReply.status # 500
        /\ chatReply.intent \in Intents
        /\ Len(chatReply.products) <= Len(products))

\* the predicates in their priority order: the keywords of each, the intent
\* and the entities it gives
Predicate(keywords, intent, mood, category) ==
  [keywords |-> keywords, intent |-> intent, mood |-> mood, category |-> category]
PredicateOrder ==
  << Predicate({"tired", "exhausted", "sleepy"}, "mood_tired", {"tired"}, {}),
     Predicate({"stressed", "anxiety", "overwhelmed"}, "mood_stressed", {"stressed"}, {}),
     Predicate({"excited", "energetic", "party"}, "mood_excited", {"excited"}, {}),
     Predicate({"lazy", "chill", "relax"}, "mood_lazy", {"lazy"}, {}),
     Predicate({"adventurous", "active", "outdoors"}, "mood_adventurous", {"adventurous"}, {}),
     Predicate({"shoes", "sneakers", "footwear"}, "product_search", {}, {"footwear"}),
     Predicate({"clothes", "clothing", "outfit"}, "product_search", {}, {"clothing"}),
     Predicate({"electronics", "headphones", "gadget"}, "product_search", {}, {"electronics"}),
     Predicate({"eco", "sustainable", "green", "environment"}, "sustainability", {}, {}),
     Predicate({"under", "below", "cheap", "budget"}, "price_filter", {}, {}),
     Predicate({"track", "order", "delivery", "shipping"}, "track_order", {}, {}),
     Predicate({"hello", "hi", "hey", "start"}, "greet", {}, {}),
     Predicate({"help", "what can you do"}, "help", {}, {}) >>

\* the predicates that the lower-cased utterance satisfies
Matching(utterance) ==
  {i \in 1..Len(PredicateOrder) :
     \E k \in PredicateOrder[i].keywords : includes(toLowerCase(utterance), k)}

FallbackReplied == chatReply.engine = "fallback"

\* C22: the intent and the entities of a classification are those of the
\* earliest predicate, in the order mood (tired, stressed, excited, lazy,
\* adventurous), category (footwear, clothing, electronics), sustainability,
\* price filter, order tracking, greeting, help, that the utterance satisfies;
\* the predicates after it contribute nothing, and an utterance that
\* satisfies none is general.
C22_FirstMatchWins ==
  FallbackReplied =>
    LET matching == Matching(chatRequest.message.value)
    IN IF matching = {}
       THEN chatReply.intent = "general" /\ chatReply.entities = NoEntities
       ELSE LET first == PredicateOrder[CHOOSE i \in matching : \A k \in matching : i <= k]
            IN /\ chatReply.intent = first.intent
               /\ chatReply.entities.mood = first.mood
               /\ chatReply.entities.category = first.category
               /\ (chatReply.entities.max_price # {}) <=> (first.intent = "price_filter")

\* an utterance that satisfies three predicates was classified
C22_SeveralMatched ==
  /\ FallbackReplied
  /\ Cardinality(Matching(chatRequest.message.value)) >= 3

TiredKeywords == {"tired", "exhausted", "sleepy"}
SaysTired(utterance) == \E k \in TiredKeywords : includes(toLowerCase(utterance), k)

\* C23: an utterance that contains a tired-mood keyword is classified
\* mood_tired and gets at least one and at most three products, each tagged
\* with the tired mood, in the order of their declaration in the catalog.
C23_TiredGetsTiredProducts ==
  (FallbackReplied /\ SaysTired(chatRequest.message.value)) =>
    /\ chatReply.intent = "mood_tired"
    /\ Len(chatReply.products) \in 1..3
    /\ \A i \in 1..Len(chatReply.products) :
         hasMood(products[chatReply.products[i]], "tired")
    /\ \A i \in 1..(Len(chatReply.products) - 1) :
         chatReply.products[i] < chatReply.products[i + 1]

\* the sample utterance of the greeting was classified and answered
C23_TiredAnswered ==
  /\ FallbackReplied
  /\ chatRequest.message = Str("I'm tired, show me cozy clothes")
  /\ chatReply.products = <<1, 3, 6>>

Rank(intent, p) ==
  CASE intent = "sustainability" -> 0 - products[p].sustainability_score
    [] intent = "price_filter" -> products[p].price
    [] OTHER -> 0

\* a reply lists at most three products, by rank, those of equal rank in the
\* order of their declaration in the catalog
RankedTopThree(reply) ==
  /\ Len(reply.products) <= 3
  /\ \A i \in 1..(Len(reply.products) - 1) :
       LET a == reply.products[i]
           b == reply.products[i + 1]
       IN \/ Rank(reply.intent, a) < Rank(reply.intent, b)
          \/ Rank(reply.intent, a) = Rank(reply.intent, b) /\ a < b

\* C25: for every intent but general the recommendation is a function of
\* intent and entities: at most three products, in rank order with equal ranks
\* in catalog order, and the same list as the previous reply gave for the same
\* intent and entities; only a general reply may differ from the one before.
C25_RecommendDeterministic ==
  [][(chatReply'.engine = "fallback" /\ chatReply'.intent # "general") =>
       /\ RankedTopThree(chatReply')
       /\ (/\ FallbackReplied
           /\ chatReply.intent = chatReply'.intent
           /\ chatReply.entities = chatReply'.entities)
            => chatReply'.products = chatReply.products]_vars

\* the sustainability branch ranked the catalog: scores 96, 95, 94
C25_SustainabilityRanked ==
  /\ FallbackReplied
  /\ chatReply.intent = "sustainability"
  /\ chatReply.products = <<6, 2, 8>>

\* the decimal numeral of a natural number
RECURSIVE Numeral(_)
Numeral(n) ==
  IF n < 10 THEN charAt(Digits, n + 1)
  ELSE Numeral(n \div 10) \o charAt(Digits, (n % 10) + 1)

\* the integer tokens of an utterance: its maximal runs of digits, as
\* <<position, numeral>>
IntegerTokens(utterance) ==
  {<<i, SubSeq(utterance, i, j)>> : <<i, j>> \in
     {r \in (1..Len(utterance)) \X (1..Len(utterance)) :
        /\ r[1] <= r[2]
        /\ \A k \in r[1]..r[2] : isDigit(charAt(utterance, k))
        /\ (r[1] = 1 \/ ~isDigit(charAt(utterance, r[1] - 1)))
        /\ (r[2] = Len(utterance) \/ ~isDigit(charAt(utterance, r[2] + 1)))}}

\* C26: the price ceiling of a price-filter utterance is the value of its
\* first integer token, and 100 when it has no integer token.
C26_CeilingIsFirstInteger ==
  (FallbackReplied /\ chatReply.intent = "price_filter") =>
    LET tokens == IntegerTokens(chatRequest.message.value)
    IN IF tokens = {}
       THEN chatReply.entities.max_price = {100}
       ELSE LET first == CHOOSE t \in tokens : \A u \in tokens : t[1] <= u[1]
            IN \E n \in 0..MaxCeiling :
                 Numeral(n) = first[2] /\ chatReply.entities.max_price = {n}

\* an utterance with two integer tokens got the first as its ceiling
C26_FirstOfTwo ==
  /\ FallbackReplied
  /\ chatRequest.message = Str("below $50 or 30")
  /\ chatReply.entities.max_price = {50}

\* the products whose price is at most c dollars
Affordable(c) == {p \in ProductIds : products[p].price <= c * 100}

\* C29: a price-filter utterance with ceiling c, 0 included, gets only
\* products whose price is at most c: the up to three cheapest of them, by
\* rising price.
C29_PriceFilterRespectsCeiling ==
  (FallbackReplied /\ chatReply.intent = "price_filter") =>
    \A c \in chatReply.entities.max_price :
      LET listed == {chatReply.products[i] : i \in 1..Len(chatReply.products)}
      IN /\ listed \subseteq Affordable(c)
         /\ Len(chatReply.products) =
              (IF Cardinality(Affordable(c)) < 3 THEN Cardinality(Affordable(c)) ELSE 3)
         /\ \A i \in 1..(Len(chatReply.products) - 1) :
              products[chatReply.products[i]].price
                < products[chatReply.products[i + 1]].price
         /\ \A p \in listed, q \in Affordable(c) \ listed :
              products[p].price <= products[q].price

\* the intents, the entity names and the number of a list of examples
IntentsOf(examples) == {examples[i].intent : i \in 1..Len(examples)}
EntitiesOf(examples) ==
  {e \in {"product", "city"} :
     \E i \in 1..Len(examples) :
       \E k \in 1..Len(examples[i].entities) : examples[i].entities[k].entity = e}
ValidatedFormats == {f \in DOMAIN corpus.rows : corpus.rows[f].status # "uploaded"}

====
